---------------------------- MODULE Spec2Model ----------------------------
(***************************************************************************)
(* A model of scripts/generate_icons.py, the icon generator of Neon Pulse  *)
(* Flappy Bird.  Three specifications share the module:                    *)
(*                                                                         *)
(*   Spec        main(): the Android phase, the iOS phase and the single   *)
(*               try/except around them, on a filesystem of directories    *)
(*               and files, with at most one injected failure per run.     *)
(*   SpecRender  create_neon_bird_icon(size), statement by statement, for  *)
(*               every size of the two size tables.                        *)
(*   SpecBlend   blend_colors(color1, color2, ratio) on a set of inputs.   *)
(*                                                                         *)
(* Strings the code indexes or slices (hex colours, file names) are        *)
(* sequences of one-character strings.  Python floats are IEEE-754         *)
(* doubles: the arithmetic of blend_colors is modelled with its rounding.  *)
(***************************************************************************)
EXTENDS Integers, Sequences, FiniteSets, TLC

VARIABLES
    \* ---- main() and the filesystem (Spec)
    pc,         \* the statement main is at
    d,          \* index into android_sizes of the current loop iteration
    k,          \* index into ios_sizes of the current loop iteration
    image,      \* the bitmap held by the local variable icon / bg / fg
    dirs,       \* the directories that exist
    files,      \* path -> content of every file that exists
    out,        \* the lines printed by this run
    writes,     \* the paths written by this run, in order
    exc,        \* the exception raised in this run, or "none"
    excAt,      \* the statement that raised it, or "none"
    run,        \* the number of the current run of main
    snap,       \* the files as the previous run left them
    \* ---- create_neon_bird_icon (SpecRender)
    rpc,        \* the statement the renderer is at
    rsize,      \* its argument
    ry,         \* the loop variable y of the gradient loop
    ri,         \* the loop variable i of the particle loop
    img,        \* the image being drawn
    \* ---- blend_colors (SpecBlend)
    bpc, bcolor1, bcolor2, bratio, bout

vars == <<pc, d, k, image, dirs, files, out, writes, exc, excAt, run, snap,
          rpc, rsize, ry, ri, img, bpc, bcolor1, bcolor2, bratio, bout>>

mainVars   == <<pc, d, k, image, dirs, files, out, writes, exc, excAt, run, snap>>
renderVars == <<rpc, rsize, ry, ri, img>>
blendVars  == <<bpc, bcolor1, bcolor2, bratio, bout>>

-----------------------------------------------------------------------------
(* The colour palette and hex_to_rgb.                                      *)

COLORS ==
    [ background     |-> <<"#", "0", "B", "0", "B", "1", "F">>,
      gradient       |-> <<"#", "1", "A", "0", "B", "2", "E">>,
      primary_neon   |-> <<"#", "0", "0", "F", "F", "F", "F">>,
      secondary_neon |-> <<"#", "F", "F", "1", "4", "9", "3">>,
      accent_neon    |-> <<"#", "3", "9", "F", "F", "1", "4">> ]

\* The digits int(s, 16) accepts, upper and lower case, in value order.
HexUpper == <<"0","1","2","3","4","5","6","7","8","9","A","B","C","D","E","F">>
HexLower == <<"0","1","2","3","4","5","6","7","8","9","a","b","c","d","e","f">>

HexDigit(c) ==
    (CHOOSE n \in 1..Len(HexUpper) : HexUpper[n] = c \/ HexLower[n] = c) - 1

\* str.lstrip(ch): the string without its leading run of ch.
RECURSIVE lstrip(_, _)
lstrip(s, ch) ==
    IF s # <<>> /\ Head(s) = ch THEN lstrip(Tail(s), ch) ELSE s

\* int(hex_color[i:i+2], 16) for a 0-based i.
HexByte(s, i) == Len(HexUpper) * HexDigit(s[i + 1]) + HexDigit(s[i + 2])

hex_to_rgb(hex_color) ==
    LET h == lstrip(hex_color, "#")
    IN  <<HexByte(h, 0), HexByte(h, 2), HexByte(h, 4)>>

-----------------------------------------------------------------------------
(* IEEE-754 double arithmetic, as far as blend_colors uses it.             *)
(*                                                                         *)
(* A non-negative double below 2^15 whose lowest set bit is at 2^-75 or    *)
(* above is held exactly as a fixed-point number: NLimbs limbs of LimbBits *)
(* bits, least significant first, the last limb being the integer part.    *)
(* Every double blend_colors meets for 0 <= y/size <= 1 with size < 2^11   *)
(* and 8-bit channels is of that kind (the smallest, 1/size, has its       *)
(* lowest bit at 2^-63 or above).  An operation computes the exact result  *)
(* in fixed point and rounds it to 53 significant bits, ties to even.      *)

LimbBits == 15
Base     == 2 ^ LimbBits
NFrac    == 5
NLimbs   == NFrac + 1
Mantissa == 53

Limbs == 1..NLimbs

ZeroF == [i \in Limbs |-> 0]
OneF  == [i \in Limbs |-> IF i = NLimbs THEN 1 ELSE 0]

\* 2^n as a fixed-point integer (bit n of the limb string set).
Pow2F(n) == [i \in Limbs |-> IF i = (n \div LimbBits) + 1
                             THEN 2 ^ (n % LimbBits) ELSE 0]

AddF(x, y) ==
    LET c[i \in 0..NLimbs] ==
            IF i = 0 THEN 0 ELSE (x[i] + y[i] + c[i - 1]) \div Base
    IN  [i \in Limbs |-> (x[i] + y[i] + c[i - 1]) % Base]

\* x - y for x >= y.
SubF(x, y) ==
    LET b[i \in 0..NLimbs] ==
            IF i = 0 THEN 0 ELSE IF x[i] - y[i] - b[i - 1] < 0 THEN 1 ELSE 0
    IN  [i \in Limbs |-> (x[i] - y[i] - b[i - 1] + Base) % Base]

\* x * n for a small integer n (n < Base).
MulF(x, n) ==
    LET c[i \in 0..NLimbs] ==
            IF i = 0 THEN 0 ELSE (x[i] * n + c[i - 1]) \div Base
    IN  [i \in Limbs |-> (x[i] * n + c[i - 1]) % Base]

\* x < y, comparing from the most significant limb.
RECURSIVE LessFrom(_, _, _)
LessFrom(x, y, i) ==
    IF i = 0 THEN FALSE
    ELSE IF x[i] # y[i] THEN x[i] < y[i]
    ELSE LessFrom(x, y, i - 1)

LessF(x, y) == LessFrom(x, y, NLimbs)

RECURSIVE BitLen(_)
BitLen(n) == IF n = 0 THEN 0 ELSE 1 + BitLen(n \div 2)

\* The number of bits of x up to its highest set bit (0 for zero).
BitLenF(x) ==
    IF x = ZeroF THEN 0
    ELSE LET h == CHOOSE i \in Limbs :
                      x[i] # 0 /\ \A j \in Limbs : j > i => x[j] = 0
         IN  (h - 1) * LimbBits + BitLen(x[h])

\* x mod 2^n: the n lowest bits of x.
LowF(x, n) ==
    [i \in Limbs |->
        IF i * LimbBits <= n THEN x[i]
        ELSE IF (i - 1) * LimbBits >= n THEN 0
        ELSE x[i] % (2 ^ (n - (i - 1) * LimbBits))]

BitF(x, n) == (x[(n \div LimbBits) + 1] \div (2 ^ (n % LimbBits))) % 2

\* Round to nearest, ties to even, keeping Mantissa significant bits.
Round53(x) ==
    LET n == BitLenF(x)
    IN  IF n <= Mantissa THEN x
        ELSE LET sh    == n - Mantissa
                 low   == LowF(x, sh)
                 trunc == SubF(x, low)
                 half  == Pow2F(sh - 1)
                 up    == \/ LessF(half, low)
                          \/ low = half /\ BitF(x, sh) = 1
             IN  IF up THEN AddF(trunc, Pow2F(sh)) ELSE trunc

\* The double p / q of two integers 0 <= p, 0 < q < 2^16 (Python's true
\* division): long division to 75 fractional bits, with a sticky bit for a
\* remainder that is left, then rounded.
FDiv(p, q) ==
    LET rem[j \in 0..NFrac] ==
            IF j = 0 THEN p % q ELSE (rem[j - 1] * Base) % q
        digit(j) == (rem[j - 1] * Base) \div q
        quot == [i \in Limbs |->
                    IF i = NLimbs THEN p \div q ELSE digit(NLimbs - i)]
        sticky == IF rem[NFrac] # 0 /\ quot[1] % 2 = 0
                  THEN [quot EXCEPT ![1] = @ + 1] ELSE quot
    IN  Round53(sticky)

FSub(x, y)    == Round53(SubF(x, y))        \* x - y
FAdd(x, y)    == Round53(AddF(x, y))        \* x + y
FMulInt(n, x) == Round53(MulF(x, n))        \* n * x, n an int
FInt(x)       == x[NLimbs]                  \* int(x), x >= 0

-----------------------------------------------------------------------------
(* blend_colors.                                                           *)

\* A variant with the two weights exchanged.
blend_colors_swapped(color1, color2, ratio) ==
    LET rgb1 == hex_to_rgb(color1)
        rgb2 == hex_to_rgb(color2)
    IN  [i \in 1..3 |->
            FInt(FAdd(FMulInt(rgb1[i], ratio),
                      FMulInt(rgb2[i], FSub(OneF, ratio))))]

blend_colors(color1, color2, ratio) ==
    LET rgb1 == hex_to_rgb(color1)
        rgb2 == hex_to_rgb(color2)
    IN  [i \in 1..3 |->
            FInt(FAdd(FMulInt(rgb1[i], FSub(OneF, ratio)),
                      FMulInt(rgb2[i], ratio)))]

-----------------------------------------------------------------------------
(* The size tables.  A dict is iterated in insertion order, so each table  *)
(* is a sequence.                                                          *)

android_sizes ==
    << [density |-> "mdpi",    size |-> 48],
       [density |-> "hdpi",    size |-> 72],
       [density |-> "xhdpi",   size |-> 96],
       [density |-> "xxhdpi",  size |-> 144],
       [density |-> "xxxhdpi", size |-> 192] >>

ios_sizes ==
    <<
       [filename |-> <<"I","c","o","n","-","A","p","p","-","2","0","x","2","0","@","1","x",".","p","n","g">>,
        size |-> 20],
       [filename |-> <<"I","c","o","n","-","A","p","p","-","2","0","x","2","0","@","2","x",".","p","n","g">>,
        size |-> 40],
       [filename |-> <<"I","c","o","n","-","A","p","p","-","2","0","x","2","0","@","3","x",".","p","n","g">>,
        size |-> 60],
       [filename |-> <<"I","c","o","n","-","A","p","p","-","2","9","x","2","9","@","1","x",".","p","n","g">>,
        size |-> 29],
       [filename |-> <<"I","c","o","n","-","A","p","p","-","2","9","x","2","9","@","2","x",".","p","n","g">>,
        size |-> 58],
       [filename |-> <<"I","c","o","n","-","A","p","p","-","2","9","x","2","9","@","3","x",".","p","n","g">>,
        size |-> 87],
       [filename |-> <<"I","c","o","n","-","A","p","p","-","4","0","x","4","0","@","1","x",".","p","n","g">>,
        size |-> 40],
       [filename |-> <<"I","c","o","n","-","A","p","p","-","4","0","x","4","0","@","2","x",".","p","n","g">>,
        size |-> 80],
       [filename |-> <<"I","c","o","n","-","A","p","p","-","4","0","x","4","0","@","3","x",".","p","n","g">>,
        size |-> 120],
       [filename |-> <<"I","c","o","n","-","A","p","p","-","6","0","x","6","0","@","2","x",".","p","n","g">>,
        size |-> 120],
       [filename |-> <<"I","c","o","n","-","A","p","p","-","6","0","x","6","0","@","3","x",".","p","n","g">>,
        size |-> 180],
       [filename |-> <<"I","c","o","n","-","A","p","p","-","7","6","x","7","6","@","1","x",".","p","n","g">>,
        size |-> 76],
       [filename |-> <<"I","c","o","n","-","A","p","p","-","7","6","x","7","6","@","2","x",".","p","n","g">>,
        size |-> 152],
       [filename |-> <<"I","c","o","n","-","A","p","p","-","8","3",".","5","x","8","3",".","5","@","2","x",".","p","n","g">>,
        size |-> 167],
       [filename |-> <<"I","c","o","n","-","A","p","p","-","1","0","2","4","x","1","0","2","4","@","1","x",".","p","n","g">>,
        size |-> 1024] >>

\* Every size create_neon_bird_icon is called with.
IconSizes ==
    {android_sizes[n].size : n \in DOMAIN android_sizes}
        \cup {ios_sizes[n].size : n \in DOMAIN ios_sizes}

-----------------------------------------------------------------------------
(* Images.                                                                 *)
(*                                                                         *)
(* The renderer fills whole rows and then draws opaque shapes over them,   *)
(* so an image is held as its rows and its shapes: rows[y] is the RGBA     *)
(* value of the pixels of row y that no shape covers, and shapes are the   *)
(* ellipses and polygons drawn so far, in drawing order, each with its     *)
(* float coordinates and its ink.  Coordinates are exact decimals, in      *)
(* hundredths of a pixel: every coordinate of the code is size // 2 plus a *)
(* multiple of size / 100, which the double arithmetic of the code meets   *)
(* to within 2^-40, far less than the distance of any value the code       *)
(* compares from the value it is compared with (at least 1/100).           *)

Unit == 100

\* x * (p / 100) for x in hundredths: bird_size * 0.3 is Pct(bird_size, 30).
Pct(x, p) == (x * p) \div Unit

Transparent == <<0, 0, 0, 0>>

\* The ink of a fill colour in an RGBA image: an RGB triple is opaque.
Ink(color) == IF Len(color) = 3 THEN Append(color, 255) ELSE color

\* Image.new('RGBA', (w, h), color)
Image_new(w, h, color) ==
    [mode |-> "RGBA", size |-> <<w, h>>,
     rows |-> [y \in 0..(h - 1) |-> Ink(color)],
     shapes |-> <<>>]

\* draw.line([(0, y), (size, y)], fill): the line ends past the right edge
\* and is clipped there, so it fills row y.  It is drawn before any shape.
draw_line(im, y, fill) == [im EXCEPT !.rows[y] = Ink(fill)]

\* draw.ellipse([x0, y0, x1, y1], fill) and draw.polygon(points, fill).
draw_ellipse(im, name, box, fill) ==
    [im EXCEPT !.shapes = Append(@, [name |-> name, kind |-> "ellipse",
                                     points |-> box, fill |-> Ink(fill)])]

draw_polygon(im, name, points, fill) ==
    [im EXCEPT !.shapes = Append(@, [name |-> name, kind |-> "polygon",
                                     points |-> points, fill |-> Ink(fill)])]

-----------------------------------------------------------------------------
(* apply_glow_effect.                                                      *)

GlowRadius == 3

\* ImageFilter.GaussianBlur: each channel of a pixel becomes a normalised
\* weighted mean of the pixels around it, the image extended at its edges.
\* The rows are blurred with a box of GlowRadius rows either side, which
\* is the library's kernel in what the code depends on: a mean of equal
\* values is that value.  The blurred layer has no sharp shapes; its rows
\* are what it holds away from them.
Clamp(y, h) == IF y < 0 THEN 0 ELSE IF y > h - 1 THEN h - 1 ELSE y

RECURSIVE SumRows(_, _, _, _)
SumRows(im, c, lo, hi) ==
    IF lo > hi THEN 0
    ELSE im.rows[Clamp(lo, im.size[2])][c] + SumRows(im, c, lo + 1, hi)

GaussianBlur(im) ==
    [im EXCEPT
        !.rows = [y \in DOMAIN im.rows |->
                    [c \in 1..4 |->
                        SumRows(im, c, y - GlowRadius, y + GlowRadius)
                            \div (2 * GlowRadius + 1)]],
        !.shapes = <<>>]

\* Image.alpha_composite on one pixel, src over dst, in the library's
\* 8-bit fixed-point arithmetic.
Div255(a) == (a + (a \div 256)) \div 256

Over(src, dst) ==
    IF src[4] = 0 THEN dst
    ELSE LET blend   == dst[4] * (255 - src[4])
             outa255 == src[4] * 255 + blend
             coef1   == (src[4] * 255 * 255 * 128) \div outa255
             coef2   == 255 * 128 - coef1
             ch(c)   == Div255(src[c] * coef1 + dst[c] * coef2 + 128 * 128)
                            \div 128
         IN  <<ch(1), ch(2), ch(3), Div255(outa255 + 128)>>

\* Image.alpha_composite(dst, src).  A shape of src is drawn in opaque ink
\* (Ink), and an opaque pixel replaces the pixel under it, so the shapes of
\* src are shapes of the result.
alpha_composite(dst, src) ==
    [dst EXCEPT
        !.rows = [y \in DOMAIN dst.rows |-> Over(src.rows[y], dst.rows[y])],
        !.shapes = dst.shapes \o src.shapes]

apply_glow_effect(im) ==
    LET glow   == GaussianBlur(im)
        result == Image_new(im.size[1], im.size[2], Transparent)
    IN  alpha_composite(alpha_composite(result, glow), im)

-----------------------------------------------------------------------------
(* create_neon_bird_icon: the geometry of the bird.                        *)

center(size)      == Unit * (size \div 2)       \* center_x and center_y
bird_size(size)   == Pct(Unit * size, 60)
body_left(size)   == center(size) - Pct(bird_size(size), 30)
body_top(size)    == center(size) - Pct(bird_size(size), 20)
body_right(size)  == center(size) + Pct(bird_size(size), 20)
body_bottom(size) == center(size) + Pct(bird_size(size), 20)

beak_points(size) ==
    << <<body_right(size), center(size) - Pct(bird_size(size), 5)>>,
       <<body_right(size) + Pct(bird_size(size), 15), center(size)>>,
       <<body_right(size), center(size) + Pct(bird_size(size), 5)>> >>

tail_points(size) ==
    << <<body_left(size), center(size) - Pct(bird_size(size), 10)>>,
       <<body_left(size) - Pct(bird_size(size), 20),
         center(size) - Pct(bird_size(size), 15)>>,
       <<body_left(size) - Pct(bird_size(size), 15),
         center(size) + Pct(bird_size(size), 5)>>,
       <<body_left(size), center(size) + Pct(bird_size(size), 10)>> >>

\* A variant that starts the trail at the body, without the gap of
\* bird_size * 0.3.
particle_x_no_gap(size, i) ==
    body_left(size) - Pct(Unit * i * size, 5)

particle_x(size, i) ==
    body_left(size) - Pct(bird_size(size), 30) - Pct(Unit * i * size, 5)

particle_y(size, i) ==
    center(size) + Pct((Unit * (i % 2) - 50) * size, 10)

Max(a, b) == IF a >= b THEN a ELSE b

particle_size(size, i) == Max(2 * Unit, Pct(Unit * size, 2) - Unit * i)

particle_box(size, i) ==
    << <<particle_x(size, i) - particle_size(size, i),
         particle_y(size, i) - particle_size(size, i)>>,
       <<particle_x(size, i) + particle_size(size, i),
         particle_y(size, i) + particle_size(size, i)>> >>

\* A variant whose ratio reaches 1 on the last row.
gradient_ratio_inclusive(y, size) == FDiv(y, size - 1)

\* ratio = y / size, and the fill of row y.
gradient_ratio(y, size) == FDiv(y, size)

bg_color(y, size) ==
    blend_colors(COLORS.background, COLORS.gradient, gradient_ratio(y, size))

NumParticles == 5

-----------------------------------------------------------------------------
(* create_neon_bird_icon(size), one action per statement.                  *)

RInit ==
    /\ rpc = "call"
    /\ rsize \in IconSizes
    /\ ry = 0 /\ ri = 0 /\ img = <<>>
    \* main and blend_colors are not running
    /\ pc = "idle" /\ d = 0 /\ k = 0 /\ image = <<>> /\ dirs = {}
    /\ files = <<>> /\ out = <<>> /\ writes = <<>> /\ exc = "none"
    /\ excAt = "none" /\ run = 0 /\ snap = <<>>
    /\ bpc = "idle" /\ bcolor1 = <<>> /\ bcolor2 = <<>> /\ bratio = <<>>
    /\ bout = <<>>

\* img = Image.new('RGBA', (size, size), (0, 0, 0, 0))
NewCanvas ==
    /\ rpc = "call"
    /\ img' = Image_new(rsize, rsize, Transparent)
    /\ ry' = 0
    /\ rpc' = "gradient"
    /\ UNCHANGED <<rsize, ri, mainVars, blendVars>>

\* One iteration of: for y in range(size): ... draw.line(...)
GradientRow ==
    /\ rpc = "gradient"
    /\ ry < rsize
    /\ img' = draw_line(img, ry, bg_color(ry, rsize))
    /\ ry' = ry + 1
    /\ rpc' = IF ry + 1 < rsize THEN "gradient" ELSE "body"
    /\ UNCHANGED <<rsize, ri, mainVars, blendVars>>

DrawBody ==
    /\ rpc = "body"
    /\ img' = draw_ellipse(img, <<"body">>,
                           << <<body_left(rsize), body_top(rsize)>>,
                              <<body_right(rsize), body_bottom(rsize)>> >>,
                           hex_to_rgb(COLORS.primary_neon))
    /\ rpc' = "beak"
    /\ UNCHANGED <<rsize, ry, ri, mainVars, blendVars>>

DrawBeak ==
    /\ rpc = "beak"
    /\ img' = draw_polygon(img, <<"beak">>, beak_points(rsize),
                           hex_to_rgb(COLORS.secondary_neon))
    /\ rpc' = "tail"
    /\ UNCHANGED <<rsize, ry, ri, mainVars, blendVars>>

DrawTail ==
    /\ rpc = "tail"
    /\ img' = draw_polygon(img, <<"tail">>, tail_points(rsize),
                           hex_to_rgb(COLORS.accent_neon))
    /\ ri' = 0
    /\ rpc' = "particles"
    /\ UNCHANGED <<rsize, ry, mainVars, blendVars>>

\* One iteration of: for i in range(5): ... if particle_x > 0: draw.ellipse
Particle ==
    /\ rpc = "particles"
    /\ ri < NumParticles
    /\ \/ /\ particle_x(rsize, ri) > 0
          /\ img' = draw_ellipse(img, <<"particle", ri>>,
                                 particle_box(rsize, ri),
                                 hex_to_rgb(COLORS.primary_neon))
       \/ /\ ~(particle_x(rsize, ri) > 0)
          /\ img' = img
    /\ ri' = ri + 1
    /\ rpc' = IF ri + 1 < NumParticles THEN "particles" ELSE "glow"
    /\ UNCHANGED <<rsize, ry, mainVars, blendVars>>

\* img = apply_glow_effect(img); return img
ApplyGlow ==
    /\ rpc = "glow"
    /\ img' = apply_glow_effect(img)
    /\ rpc' = "returned"
    /\ UNCHANGED <<rsize, ry, ri, mainVars, blendVars>>

RNext ==
    \/ NewCanvas \/ GradientRow \/ DrawBody \/ DrawBeak \/ DrawTail
    \/ Particle \/ ApplyGlow

SpecRender == RInit /\ [][RNext]_vars

-----------------------------------------------------------------------------
(* main(): bitmaps, paths and the filesystem.                              *)
(*                                                                         *)
(* create_neon_bird_icon reads its argument and the constant palette and   *)
(* nothing else, so in Spec a bitmap is held by its mode, its size and the *)
(* call that produced its pixels; SpecRender models the pixels.            *)

\* A variant whose pixels differ from run to run.
create_neon_bird_icon_jitter(size) ==
    [mode |-> "RGBA", size |-> <<size, size>>,
     pixels |-> [by |-> "create_neon_bird_icon", arg |-> <<size, run>>]]

\* The bitmap create_neon_bird_icon(size) returns.
create_neon_bird_icon(size) ==
    [mode |-> "RGBA", size |-> <<size, size>>,
     pixels |-> [by |-> "create_neon_bird_icon", arg |-> <<size>>]]

\* The bitmap Image.new('RGBA', (size, size), color) returns.
solid_image(size, color) ==
    [mode |-> "RGBA", size |-> <<size, size>>,
     pixels |-> [by |-> "Image.new", arg |-> Ink(color)]]

\* A file left by an earlier version of the script.
stale_image ==
    [mode |-> "RGBA", size |-> <<512, 512>>,
     pixels |-> [by |-> "earlier version", arg |-> <<>>]]

android_base_path == "../android/app/src/main/res"
ios_base_path     == "../ios/Runner/Assets.xcassets/AppIcon.appiconset"

\* f'{base_path}/mipmap-{density}', as the parts the f-string joins.
android_dir(density) == <<android_base_path, "mipmap-", density>>
ios_dir              == <<ios_base_path>>

ic_launcher            == <<"i","c","_","l","a","u","n","c","h","e","r",".","p","n","g">>
ic_launcher_background == <<"i","c","_","l","a","u","n","c","h","e","r","_","b","a","c","k","g","r","o","u","n","d",".","p","n","g">>
ic_launcher_foreground == <<"i","c","_","l","a","u","n","c","h","e","r","_","f","o","r","e","g","r","o","u","n","d",".","p","n","g">>

\* f'{dir_path}/{filename}'
path_join(dir, filename) == [dir |-> dir, name |-> filename]

AndroidDirs == {android_dir(android_sizes[n].density) : n \in DOMAIN android_sizes}

AndroidPaths ==
    {path_join(dir, name) :
        dir \in AndroidDirs,
        name \in {ic_launcher, ic_launcher_background, ic_launcher_foreground}}

IosPaths == {path_join(ios_dir, ios_sizes[n].filename) : n \in DOMAIN ios_sizes}

\* A variant that creates nothing.
makedirs_nothing(ds, dir_path) == ds

\* os.makedirs(dir_path, exist_ok=True)
makedirs(ds, dir_path) == ds \cup {dir_path}

\* The file system after image.save(path): the file is created or replaced.
save(fs, path, bitmap) ==
    [p \in (DOMAIN fs) \cup {path} |-> IF p = path THEN bitmap ELSE fs[p]]

\* A variant of the handler for "except ImportError".
main_catches_import_only(e) == e \in {"ImportError"}

\* The exceptions "except Exception" catches: every one the steps raise.
ExceptionClasses == {"OSError", "FileNotFoundError", "MemoryError", "ValueError"}
main_catches(e) == e \in ExceptionClasses

\* A printed line.
Line(kind) == [kind |-> kind, what |-> <<>>, size |-> 0]
Progress(platform, what, size) == [kind |-> platform, what |-> what, size |-> size]

MaxRuns == 2

-----------------------------------------------------------------------------
(* main(), one action per statement.                                       *)

Init ==
    /\ pc = "main"
    /\ d = 0 /\ k = 0 /\ image = <<>>
    /\ dirs \in SUBSET (AndroidDirs \cup {ios_dir})
    /\ files \in { <<>>,
                   [p \in {q \in AndroidPaths \cup IosPaths : q.dir \in dirs}
                       |-> stale_image] }
    /\ out = <<>> /\ writes = <<>>
    /\ exc = "none" /\ excAt = "none"
    /\ run = 1 /\ snap = <<>>
    \* create_neon_bird_icon and blend_colors are modelled on their own
    /\ rpc = "idle" /\ rsize = 0 /\ ry = 0 /\ ri = 0 /\ img = <<>>
    /\ bpc = "idle" /\ bcolor1 = <<>> /\ bcolor2 = <<>> /\ bratio = <<>>
    /\ bout = <<>>

density  == android_sizes[d].density
asize    == android_sizes[d].size
dir_path == android_dir(density)

\* A variant that enters generate_ios_icons first.
MainStart_ios_first ==
    /\ pc = "main"
    /\ out' = out \o <<Line("banner"), Line("rule")>>
    /\ k' = 1
    /\ pc' = "i_icon"
    /\ UNCHANGED <<d, image, dirs, files, writes, exc, excAt, run, snap,
                   renderVars, blendVars>>

\* print("Generating ..."); print("=" * 50); try: generate_android_icons()
MainStart ==
    /\ pc = "main"
    /\ out' = out \o <<Line("banner"), Line("rule")>>
    /\ d' = 1
    /\ pc' = "a_makedirs"
    /\ UNCHANGED <<k, image, dirs, files, writes, exc, excAt, run, snap,
                   renderVars, blendVars>>

\* os.makedirs(dir_path, exist_ok=True)
AndroidMakedirs ==
    /\ pc = "a_makedirs"
    /\ dirs' = makedirs(dirs, dir_path)
    /\ pc' = "a_icon"
    /\ UNCHANGED <<d, k, image, files, out, writes, exc, excAt, run, snap,
                   renderVars, blendVars>>

\* icon = create_neon_bird_icon(size)
AndroidRenderIcon ==
    /\ pc = "a_icon"
    /\ image' = create_neon_bird_icon(asize)
    /\ pc' = "a_icon_save"
    /\ UNCHANGED <<d, k, dirs, files, out, writes, exc, excAt, run, snap,
                   renderVars, blendVars>>

\* image.save(path): raises FileNotFoundError when the directory is missing.
Save(path, next) ==
    IF path.dir \in dirs
    THEN /\ files' = save(files, path, image)
         /\ writes' = Append(writes, path)
         /\ pc' = next
         /\ UNCHANGED <<exc, excAt>>
    ELSE /\ exc' = "FileNotFoundError"
         /\ excAt' = pc
         /\ pc' = IF main_catches("FileNotFoundError") THEN "except" ELSE "crashed"
         /\ UNCHANGED <<files, writes>>

\* icon.save(f'{dir_path}/ic_launcher.png')
AndroidSaveIcon ==
    /\ pc = "a_icon_save"
    /\ Save(path_join(dir_path, ic_launcher), "a_bg")
    /\ UNCHANGED <<d, k, image, dirs, out, run, snap, renderVars, blendVars>>

\* bg = Image.new('RGBA', (size, size), hex_to_rgb(COLORS['background']))
AndroidNewBg ==
    /\ pc = "a_bg"
    /\ image' = solid_image(asize, hex_to_rgb(COLORS.background))
    /\ pc' = "a_bg_save"
    /\ UNCHANGED <<d, k, dirs, files, out, writes, exc, excAt, run, snap,
                   renderVars, blendVars>>

\* bg.save(f'{dir_path}/ic_launcher_background.png')
AndroidSaveBg ==
    /\ pc = "a_bg_save"
    /\ Save(path_join(dir_path, ic_launcher_background), "a_fg")
    /\ UNCHANGED <<d, k, image, dirs, out, run, snap, renderVars, blendVars>>

\* fg = create_neon_bird_icon(size)
AndroidRenderFg ==
    /\ pc = "a_fg"
    /\ image' = create_neon_bird_icon(asize)
    /\ pc' = "a_fg_save"
    /\ UNCHANGED <<d, k, dirs, files, out, writes, exc, excAt, run, snap,
                   renderVars, blendVars>>

\* fg.save(f'{dir_path}/ic_launcher_foreground.png')
AndroidSaveFg ==
    /\ pc = "a_fg_save"
    /\ Save(path_join(dir_path, ic_launcher_foreground), "a_print")
    /\ UNCHANGED <<d, k, image, dirs, out, run, snap, renderVars, blendVars>>

\* A variant that prints one line for each of the three files.
AndroidPrint_per_file ==
    /\ pc = "a_print"
    /\ out' = out \o << Progress("Android", <<density>>, asize),
                        Progress("Android", <<density>>, asize),
                        Progress("Android", <<density>>, asize) >>
    /\ IF d < Len(android_sizes)
       THEN d' = d + 1 /\ pc' = "a_makedirs"
       ELSE d' = d /\ pc' = "blank"
    /\ UNCHANGED <<k, image, dirs, files, writes, exc, excAt, run, snap,
                   renderVars, blendVars>>

\* print(f'Generated Android {density} icons ({size}x{size})'), and the
\* next iteration; after the last one generate_android_icons returns.
AndroidPrint ==
    /\ pc = "a_print"
    /\ out' = Append(out, Progress("Android", <<density>>, asize))
    /\ IF d < Len(android_sizes)
       THEN d' = d + 1 /\ pc' = "a_makedirs"
       ELSE d' = d /\ pc' = "blank"
    /\ UNCHANGED <<k, image, dirs, files, writes, exc, excAt, run, snap,
                   renderVars, blendVars>>

\* print(); generate_ios_icons()
MainBlank ==
    /\ pc = "blank"
    /\ out' = Append(out, Line("blank"))
    /\ k' = 1
    /\ pc' = "i_icon"
    /\ UNCHANGED <<d, image, dirs, files, writes, exc, excAt, run, snap,
                   renderVars, blendVars>>

\* A variant that renders every iOS icon at the App Store size.
IosRender_one_size ==
    /\ pc = "i_icon"
    /\ image' = create_neon_bird_icon(1024)
    /\ pc' = "i_save"
    /\ UNCHANGED <<d, k, dirs, files, out, writes, exc, excAt, run, snap,
                   renderVars, blendVars>>

\* icon = create_neon_bird_icon(size)
IosRender ==
    /\ pc = "i_icon"
    /\ image' = create_neon_bird_icon(ios_sizes[k].size)
    /\ pc' = "i_save"
    /\ UNCHANGED <<d, k, dirs, files, out, writes, exc, excAt, run, snap,
                   renderVars, blendVars>>

\* icon.save(f'{base_path}/{filename}')
IosSave ==
    /\ pc = "i_save"
    /\ Save(path_join(ios_dir, ios_sizes[k].filename), "i_print")
    /\ UNCHANGED <<d, k, image, dirs, out, run, snap, renderVars, blendVars>>

\* print(f'Generated iOS icon {filename} ({size}x{size})'), and the next
\* iteration; after the last one generate_ios_icons returns.
IosPrint ==
    /\ pc = "i_print"
    /\ out' = Append(out, Progress("iOS", ios_sizes[k].filename, ios_sizes[k].size))
    /\ IF k < Len(ios_sizes)
       THEN k' = k + 1 /\ pc' = "i_icon"
       ELSE k' = k /\ pc' = "success"
    /\ UNCHANGED <<d, image, dirs, files, writes, exc, excAt, run, snap,
                   renderVars, blendVars>>

\* print(); print("All icons generated successfully!"); print("Note: ...")
MainSuccess ==
    /\ pc = "success"
    /\ out' = out \o <<Line("blank"), Line("success"), Line("note")>>
    /\ pc' = "done"
    /\ UNCHANGED <<d, k, image, dirs, files, writes, exc, excAt, run, snap,
                   renderVars, blendVars>>

\* The statements of the try block that call the imaging library or the
\* file system, with the exception an injected failure of each one raises.
Raises ==
    [a_makedirs  |-> "OSError",     a_icon    |-> "MemoryError",
     a_icon_save |-> "OSError",     a_bg      |-> "ValueError",
     a_bg_save   |-> "OSError",     a_fg      |-> "MemoryError",
     a_fg_save   |-> "OSError",     i_icon    |-> "MemoryError",
     i_save      |-> "OSError"]

\* The statement main is at fails: control leaves the try block.
Raise ==
    /\ pc \in DOMAIN Raises
    /\ exc' = Raises[pc]
    /\ excAt' = pc
    /\ pc' = IF main_catches(Raises[pc]) THEN "except" ELSE "crashed"
    /\ UNCHANGED <<d, k, image, dirs, files, out, writes, run, snap,
                   renderVars, blendVars>>

\* except Exception as e: print(f"Error generating icons: {e}"); print(...)
MainExcept ==
    /\ pc = "except"
    /\ out' = out \o <<Line("error"), Line("hint")>>
    /\ pc' = "done"
    /\ UNCHANGED <<d, k, image, dirs, files, writes, exc, excAt, run, snap,
                   renderVars, blendVars>>

\* The script is run again on the files a completed run left.
Rerun ==
    /\ pc = "done"
    /\ exc = "none"
    /\ run < MaxRuns
    /\ run' = run + 1
    /\ snap' = files
    /\ pc' = "main"
    /\ d' = 0 /\ k' = 0 /\ image' = <<>>
    /\ out' = <<>> /\ writes' = <<>>
    /\ UNCHANGED <<dirs, files, exc, excAt, renderVars, blendVars>>

Next ==
    \/ MainStart \/ AndroidMakedirs \/ AndroidRenderIcon \/ AndroidSaveIcon
    \/ AndroidNewBg \/ AndroidSaveBg \/ AndroidRenderFg \/ AndroidSaveFg
    \/ AndroidPrint \/ MainBlank \/ IosRender \/ IosSave \/ IosPrint
    \/ MainSuccess \/ Raise \/ MainExcept \/ Rerun

Spec == Init /\ [][Next]_vars

-----------------------------------------------------------------------------
(* blend_colors(color1, color2, ratio) on its own.                         *)

Black == <<"#","0","0","0","0","0","0">>
Grey  == <<"#","C","8","C","8","C","8">>
White == <<"f","f","f","f","f","f">>

\* '#nnnnnn' for a byte n.
GreyHex(n) ==
    LET hi == HexUpper[(n \div 16) + 1]
        lo == HexUpper[(n % 16) + 1]
    IN  <<"#", hi, lo, hi, lo, hi, lo>>

BlendColors ==
    {COLORS.background, COLORS.gradient, COLORS.primary_neon,
     COLORS.secondary_neon, COLORS.accent_neon, Black, Grey, White}
        \cup {GreyHex(n) : n \in {1, 127, 128, 254}}

\* The ratios p / q tried: 0, 1, 1/2 and some that are not exact doubles.
BlendRatios == {<<0, 1>>, <<1, 1>>, <<1, 2>>, <<1, 3>>, <<47, 48>>, <<1, 10>>}

BInit ==
    /\ bpc = "call"
    /\ bcolor1 \in BlendColors
    /\ bcolor2 \in BlendColors
    /\ bratio \in BlendRatios
    /\ bout = <<>>
    /\ pc = "idle" /\ d = 0 /\ k = 0 /\ image = <<>> /\ dirs = {}
    /\ files = <<>> /\ out = <<>> /\ writes = <<>> /\ exc = "none"
    /\ excAt = "none" /\ run = 0 /\ snap = <<>>
    /\ rpc = "idle" /\ rsize = 0 /\ ry = 0 /\ ri = 0 /\ img = <<>>

BlendCall ==
    /\ bpc = "call"
    /\ bout' = blend_colors(bcolor1, bcolor2, FDiv(bratio[1], bratio[2]))
    /\ bpc' = "returned"
    /\ UNCHANGED <<bcolor1, bcolor2, bratio, mainVars, renderVars>>

BNext == BlendCall

SpecBlend == BInit /\ [][BNext]_vars

-----------------------------------------------------------------------------
(* Vocabulary of the properties.                                           *)

IsAndroid(p) == p.dir \in AndroidDirs
IsIos(p)     == p.dir = ios_dir

AndroidSteps ==
    {"a_makedirs", "a_icon", "a_icon_save", "a_bg", "a_bg_save", "a_fg",
     "a_fg_save", "a_print"}

\* The run is over and nothing was raised.
Completed == pc = "done" /\ exc = "none"

Written == {writes[n] : n \in DOMAIN writes}

NumWrites(P(_)) == Cardinality({n \in DOMAIN writes : P(writes[n])})
NumLines(kind)  == Cardinality({n \in DOMAIN out : out[n].kind = kind})

AndroidPath(n, name) == path_join(android_dir(android_sizes[n].density), name)

\* The slot a file name Icon-App-<w>x<h>@<k>x.png names: w and h in tenths
\* of a point, and the scale k.
DecDigits == <<"0", "1", "2", "3", "4", "5", "6", "7", "8", "9">>
IsDigit(c) == \E n \in DOMAIN DecDigits : DecDigits[n] = c
DigitVal(c) == (CHOOSE n \in DOMAIN DecDigits : DecDigits[n] = c) - 1

\* The integer that starts at s[i], and the index after it.
RECURSIVE ReadInt(_, _, _)
ReadInt(s, i, acc) ==
    IF i <= Len(s) /\ IsDigit(s[i])
    THEN ReadInt(s, i + 1, 10 * acc + DigitVal(s[i]))
    ELSE <<acc, i>>

\* The decimal that starts at s[i], in tenths, and the index after it.
ReadTenths(s, i) ==
    LET whole == ReadInt(s, i, 0)
    IN  IF whole[2] <= Len(s) /\ s[whole[2]] = "."
        THEN <<10 * whole[1] + DigitVal(s[whole[2] + 1]), whole[2] + 2>>
        ELSE <<10 * whole[1], whole[2]>>

IconAppPrefix == <<"I","c","o","n","-","A","p","p","-">>

ParseSlot(name) ==
    LET w == ReadTenths(name, Len(IconAppPrefix) + 1)
        h == ReadTenths(name, w[2] + 1)
        s == ReadInt(name, h[2] + 1, 0)
    IN  [prefix |-> SubSeq(name, 1, Len(IconAppPrefix)),
         w10 |-> w[1], sep1 |-> name[w[2]],
         h10 |-> h[1], sep2 |-> name[h[2]],
         scale |-> s[1], rest |-> SubSeq(name, s[2], Len(name))]

-----------------------------------------------------------------------------
(* C1.  When no operation fails, generate_android_icons, started with any  *)
(* of the five mipmap directories present or absent, returns with all five *)
(* directories existing and exactly 15 files written, three per density,   *)
(* each of that density's size; a file is only ever written into a         *)
(* directory that exists, and the phase never fails on a missing one.      *)

C1_AndroidWritesFifteen ==
    /\ pc = "blank" =>
          /\ AndroidDirs \subseteq dirs
          /\ Len(writes) = 15
          /\ Written = AndroidPaths
          /\ Cardinality(AndroidPaths) = 15
          /\ \A n \in DOMAIN android_sizes :
                \A name \in {ic_launcher, ic_launcher_background,
                             ic_launcher_foreground} :
                    files[AndroidPath(n, name)].size
                        = <<android_sizes[n].size, android_sizes[n].size>>
    /\ pc \in {"a_icon", "a_icon_save", "a_bg", "a_bg_save", "a_fg",
               "a_fg_save", "a_print"} => dir_path \in dirs
    /\ \A p \in Written : p.dir \in dirs /\ p \in DOMAIN files
    /\ exc = "FileNotFoundError" => excAt \notin AndroidSteps

C1_Witness ==
    /\ pc = "blank" /\ run = 1 /\ Len(writes) = 15
    /\ ios_dir \notin dirs
    /\ files[AndroidPath(5, ic_launcher_foreground)].size = <<192, 192>>

-----------------------------------------------------------------------------
(* C2.  When the iOS directory exists and no operation fails,              *)
(* generate_ios_icons writes exactly 15 files, one per entry of ios_sizes  *)
(* under the entry's literal name, and every file Icon-App-<w>x<h>@<k>x.png*)
(* holds an image w*k pixels wide and high.                                *)

SlotOk(p) ==
    LET slot == ParseSlot(p.name)
    IN  /\ slot.prefix = IconAppPrefix
        /\ slot.sep1 = "x" /\ slot.sep2 = "@"
        /\ slot.rest = <<"x",".","p","n","g">>
        /\ slot.w10 = slot.h10
        /\ 10 * files[p].size[1] = slot.w10 * slot.scale
        /\ 10 * files[p].size[2] = slot.h10 * slot.scale

C2_IosFilesMatchNames ==
    /\ (pc = "success" \/ Completed) =>
          /\ NumWrites(IsIos) = 15
          /\ Cardinality(IosPaths) = 15
          /\ \A n \in DOMAIN ios_sizes :
                writes[15 + n] = path_join(ios_dir, ios_sizes[n].filename)
    /\ \A p \in Written : IsIos(p) => SlotOk(p)

C2_Witness ==
    /\ Completed
    /\ \E p \in Written :
          /\ p.name = <<"I","c","o","n","-","A","p","p","-","8","3",".","5","x","8","3",".","5","@","2","x",".","p","n","g">>
          /\ files[p].size = <<167, 167>>
    /\ \E p \in Written :
          /\ p.name = <<"I","c","o","n","-","A","p","p","-","6","0","x","6","0","@","3","x",".","p","n","g">>
          /\ files[p].size = <<180, 180>>

-----------------------------------------------------------------------------
(* C3.  A failure at any one statement of the try block (a directory       *)
(* creation, a render, a file write, of either phase) is caught by main's  *)
(* one handler: control goes to the handler, the failure message is        *)
(* printed once and the success message never, nothing is written after    *)
(* the failing statement, and main ends normally.                          *)

C3_State ==
    /\ exc # "none" => pc \in {"except", "done"}
    /\ pc # "crashed"
    /\ exc # "none" => NumLines("success") = 0
    /\ exc = "none" \/ pc = "except" => NumLines("error") = 0
    /\ pc = "done" /\ exc # "none" => NumLines("error") = 1

C3_CaughtOnce ==
    /\ []C3_State
    /\ [][exc # "none" => UNCHANGED <<files, writes, dirs>>]_vars

C3_Witness ==
    /\ pc = "done" /\ exc = "OSError" /\ excAt = "i_save"
    /\ Len(writes) = 20 /\ NumLines("error") = 1

-----------------------------------------------------------------------------
(* C4.  Running main again on the files a completed run left changes       *)
(* nothing: the paths and the content of every file after the second run   *)
(* are those after the first, every write of the second run puts back what *)
(* the path held, and within a run ic_launcher.png and                     *)
(* ic_launcher_foreground.png of a density hold the same content.          *)

-----------------------------------------------------------------------------
(* C5.  blend_colors(color1, color2, ratio) is, per channel,               *)
(* int(c1 * (1 - ratio) + c2 * ratio): color1 for ratio 0, color2 for      *)
(* ratio 1, (100, 100, 100) for black and (200, 200, 200) at ratio 1/2;    *)
(* and in general the exact value truncated, or one less where the exact   *)
(* value is an integer the doubles fall just short of.                     *)

ExactChannel(c) ==
    hex_to_rgb(bcolor1)[c] * (bratio[2] - bratio[1])
        + hex_to_rgb(bcolor2)[c] * bratio[1]

C5_BlendEndpoints ==
    bpc = "returned" =>
        /\ bratio = <<0, 1>> => bout = hex_to_rgb(bcolor1)
        /\ bratio = <<1, 1>> => bout = hex_to_rgb(bcolor2)
        /\ bratio = <<1, 2>> /\ bcolor1 = Black /\ bcolor2 = Grey
              => bout = <<100, 100, 100>>
        /\ \A c \in 1..3 :
              \/ bout[c] = ExactChannel(c) \div bratio[2]
              \/ /\ ExactChannel(c) % bratio[2] = 0
                 /\ bout[c] = (ExactChannel(c) \div bratio[2]) - 1

C5_Witness ==
    /\ bpc = "returned" /\ bratio = <<1, 2>>
    /\ bcolor1 = Black /\ bcolor2 = Grey
    /\ bout = <<100, 100, 100>>

-----------------------------------------------------------------------------
(* C6.  main runs Android, then iOS: no iOS file is written before all 15  *)
(* Android files of the run, and none at all in a run whose Android phase  *)
(* failed.                                                                 *)

C6_AndroidBeforeIos ==
    /\ \A n \in DOMAIN writes :
          IsIos(writes[n]) =>
              /\ n > 15
              /\ {writes[m] : m \in 1..15} = AndroidPaths
    /\ excAt \in AndroidSteps => NumWrites(IsIos) = 0

C6_Witness ==
    /\ pc = "done" /\ excAt = "a_fg_save" /\ d = 5
    /\ Len(writes) = 14 /\ NumWrites(IsIos) = 0

-----------------------------------------------------------------------------
(* C7.  Progress lines.  As claimed: one line per file, so that after each *)
(* print as many lines are out as files are written.                       *)

AfterPrint ==
    \/ pc \in {"a_makedirs", "blank", "i_icon", "success"}
    \/ Completed

NumProgress == NumLines("Android") + NumLines("iOS")

C7_LinePerFile == AfterPrint => NumProgress = Len(writes)

(* C7, amended.  The Android phase prints one line per density, after the  *)
(* density's three files, and the iOS phase one line per file: after each  *)
(* print, three times the Android lines are the Android files written and  *)
(* the iOS lines are the iOS files written; a run without failures prints  *)
(* 20 progress lines for its 30 files.                                     *)

C7_LinePerDensityOrFile ==
    /\ AfterPrint =>
          /\ 3 * NumLines("Android") = NumWrites(IsAndroid)
          /\ NumLines("iOS") = NumWrites(IsIos)
    /\ Completed => NumProgress = 20 /\ Len(writes) = 30

C7_Witness ==
    Completed /\ NumLines("Android") = 5 /\ NumLines("iOS") = 15
        /\ Len(writes) = 30

-----------------------------------------------------------------------------
(* C8.  The gradient.  As claimed: once the rows are filled, row 0 has the *)
(* background colour and the last row the gradient colour.                 *)

Filled == rpc \in {"body", "beak", "tail", "particles", "glow", "returned"}

C8_BottomIsGradient ==
    Filled =>
        /\ img.rows[0] = Ink(hex_to_rgb(COLORS.background))
        /\ img.rows[rsize - 1] = Ink(hex_to_rgb(COLORS.gradient))

(* C8, amended.  Row 0 has exactly the background colour (11, 11, 31); the *)
(* last row has blend_colors(background, gradient, (size - 1) / size),     *)
(* which is (25, 11, 45) for every size of the tables, one short of the    *)
(* gradient colour (26, 11, 46) in red and in blue; no row has the         *)
(* gradient colour, as the ratio y / size stays below 1.                   *)

C8_BottomShortOfGradient ==
    Filled =>
        /\ img.rows[0] = <<11, 11, 31, 255>>
        /\ img.rows[rsize - 1] = <<25, 11, 45, 255>>
        /\ \A y \in DOMAIN img.rows :
              img.rows[y] # Ink(hex_to_rgb(COLORS.gradient))

C8_Witness ==
    /\ rpc = "returned" /\ rsize = 1024
    /\ img.rows[0] = <<11, 11, 31, 255>>
    /\ img.rows[1023] = <<25, 11, 45, 255>>

-----------------------------------------------------------------------------
(* C9.  The image create_neon_bird_icon returns for an Android size, which *)
(* is saved as ic_launcher_foreground.png, has a transparent background:   *)
(* every pixel that no shape covers has alpha 0.                           *)

C9_BackgroundTransparent ==
    rpc = "returned"
        /\ rsize \in {android_sizes[n].size : n \in DOMAIN android_sizes}
        => \A y \in DOMAIN img.rows : img.rows[y][4] = 0

-----------------------------------------------------------------------------
(* C10.  Of the five particle dots exactly the dots 0, 1 and 2 are drawn,  *)
(* for every size of the tables, and every dot drawn has a radius of at    *)
(* least 2 pixels.                                                         *)

Dots == {n \in DOMAIN img.shapes : img.shapes[n].name[1] = "particle"}

Drawn(i) == \E n \in Dots : img.shapes[n].name[2] = i

C10_ThreeDots ==
    rpc \in {"particles", "glow", "returned"} =>
        /\ \A i \in 0..(NumParticles - 1) :
              i < ri => (Drawn(i) <=> i \in {0, 1, 2})
        /\ \A n \in Dots :
              LET box == img.shapes[n].points
              IN  /\ box[2][1] - box[1][1] >= 2 * (2 * Unit)
                  /\ box[2][2] - box[1][2] >= 2 * (2 * Unit)

C10_Witness ==
    /\ rpc = "returned" /\ rsize = 29 /\ ri = NumParticles
    /\ Drawn(2) /\ ~Drawn(3)
    /\ Cardinality(Dots) = 3

=============================================================================
